---- MODULE Spec2Model ----
(***************************************************************************)
(* Model of the relational import pipeline of synth                        *)
(* (src/synth/src/cli/import_utils.rs): build_namespace_import and its     *)
(* four phases, one action per loop iteration or capability call.          *)
(*                                                                         *)
(* Names are sequences of one-character strings, so that the field path    *)
(* built by format!("{}.content.{}") and parsed by FieldRef::new is a      *)
(* real conversion.                                                        *)
(***************************************************************************)
EXTENDS Integers, Sequences, FiniteSets, TLC

VARIABLES
    pc,             \* position inside build_namespace_import
    table_names,    \* local `table_names` (line 24)
    idx,            \* 1-based position of the running `for` loop
    namespace,      \* local `namespace` (line 27): collection name -> Content
    foreign_keys,   \* local `foreign_keys` (line 85)
    result,         \* "Running", "Ok" or "Err": what the function returned
    error,          \* the anyhow error returned with "Err"
    returned,       \* the Result's payload handed to the caller
    column_infos,   \* what get_columns_infos returned, per table
    primary_keys,   \* what get_primary_keys returned, per table
    samples,        \* what get_deterministic_samples returned, per table
    seeded,         \* number of set_seed calls
    trace           \* the calls and loop iterations so far, in order

vars == <<pc, table_names, idx, namespace, foreign_keys, result, error,
          returned, column_infos, primary_keys, samples, seeded, trace>>

-----------------------------------------------------------------------------
(* Bounds of the data source's answers *)

MaxTables == 2
MaxPks == 2
MaxFks == 2

-----------------------------------------------------------------------------
(* Names *)

users == <<"u", "s", "e", "r", "s">>
orders == <<"o", "r", "d", "e", "r", "s">>
dotted == <<"a", ".", "b">>
missing == <<"m">>
id == <<"i", "d">>
name == <<"n", "a", "m", "e">>
user_id == <<"u", "s", "e", "r", "_", "i", "d">>
content == <<"c", "o", "n", "t", "e", "n", "t">>

IdentChars ==
    {"a", "b", "c", "d", "e", "f", "g", "h", "i", "j", "k", "l", "m", "n",
     "o", "p", "q", "r", "s", "t", "u", "v", "w", "x", "y", "z", "_",
     "0", "1", "2", "3", "4", "5", "6", "7", "8", "9"}

ValidIdent(s) == Len(s) > 0 /\ \A k \in 1..Len(s) : s[k] \in IdentChars

\* Name::from_str
NameFromStr(s) ==
    IF ValidIdent(s) THEN [ok |-> TRUE, name |-> s] ELSE [ok |-> FALSE]

\* format!("{}.content.{}", table, column)
FormatPath(table, column) == table \o <<".">> \o content \o <<".">> \o column

RECURSIVE SplitDots(_)
SplitDots(s) ==
    IF s = <<>> THEN << <<>> >>
    ELSE LET rest == SplitDots(Tail(s))
         IN  IF Head(s) = "."
             THEN << <<>> >> \o rest
             ELSE << <<Head(s)>> \o Head(rest) >> \o Tail(rest)

\* FieldRef::new: a field path has exactly the three segments
\* <collection>.content.<field>, collection and field being identifiers
FieldRefNew(path) ==
    LET seg == SplitDots(path)
    IN  IF Len(seg) = 3 /\ seg[2] = content
           /\ ValidIdent(seg[1]) /\ ValidIdent(seg[3])
        THEN [ok |-> TRUE, collection |-> seg[1], field |-> seg[3]]
        ELSE [ok |-> FALSE]

-----------------------------------------------------------------------------
(* Content nodes *)

NullContent == [kind |-> "Null"]
IdContent == [kind |-> "Number", number |-> "U64", variant |-> "Id"]
RangeContent(low, high, step) ==
    [kind |-> "Number", number |-> "U64", variant |-> "Range",
     low |-> low, high |-> high, step |-> step]
StringContent(max) == [kind |-> "String", max_length |-> max]
SameAsContent(to_field) ==
    [kind |-> "SameAs",
     ref_ |-> [collection |-> to_field.collection, field |-> to_field.field]]
OneOfContent(variants) == [kind |-> "OneOf", variants |-> variants]
FieldContent(node) == [optional |-> FALSE, content |-> node]

\* decode_to_content of the data source: one scalar node, or a failure
DecodeToContent(data_type, max) ==
    CASE data_type = "int" -> [ok |-> TRUE, content |-> RangeContent(0, 10, 1)]
      [] data_type = "text" -> [ok |-> TRUE, content |-> StringContent(max)]
      [] OTHER -> [ok |-> FALSE]

-----------------------------------------------------------------------------
(* Namespace *)

EmptyNamespace == [n \in {} |-> NullContent]

\* Namespace::put_collection: insert the collection under the name
PutCollection(ns, n, collection) ==
    [c \in DOMAIN ns \cup {n} |-> IF c = n THEN collection ELSE ns[c]]

\* Does the field path resolve to a field of the Object one level beneath the
\* collection's Array wrapper?
Resolves(ns, ref) ==
    /\ ref.collection \in DOMAIN ns
    /\ ns[ref.collection].kind = "Array"
    /\ ns[ref.collection].content.kind = "Object"
    /\ ref.field \in DOMAIN ns[ref.collection].content.fields

\* Namespace::get_s_node_mut followed by `*node = new`
SetSNode(ns, ref, new) ==
    [ns EXCEPT ![ref.collection].content.fields[ref.field].content = new]

NodeAt(ns, table, column) == ns[table].content.fields[column].content

-----------------------------------------------------------------------------
(* Collection Builder *)

ColumnInfo(column_name, data_type, is_nullable, max) ==
    [column_name |-> column_name, data_type |-> data_type,
     is_nullable |-> is_nullable, character_maximum_length |-> max]

\* the nullable column's node left as decoded
FieldContentFromNoWrap(column_info) ==
    LET decoded == DecodeToContent(column_info.data_type,
                                   column_info.character_maximum_length)
    IN  IF ~decoded.ok THEN [ok |-> FALSE]
        ELSE [ok |-> TRUE, field |-> FieldContent(decoded.content)]

\* TryFrom<(&T, &ColumnInfo)> for FieldContentWrapper
FieldContentFrom(column_info) ==
    LET decoded == DecodeToContent(column_info.data_type,
                                   column_info.character_maximum_length)
    IN  IF ~decoded.ok THEN [ok |-> FALSE]
        ELSE [ok |-> TRUE,
              field |-> FieldContent(
                  IF column_info.is_nullable
                  THEN OneOfContent(<<decoded.content, NullContent>>)
                  ELSE decoded.content)]

\* the `for column_info in columns_meta.1` loop of Collection::try_from,
\* from column k on, over the fields inserted so far
RECURSIVE InsertFields(_, _, _)
InsertFields(cols, k, fields) ==
    IF k > Len(cols) THEN [ok |-> TRUE, fields |-> fields]
    ELSE LET fc == FieldContentFrom(cols[k])
         IN  IF ~fc.ok THEN [ok |-> FALSE]
             ELSE InsertFields(cols, k + 1,
                      [f \in DOMAIN fields \cup {cols[k].column_name} |->
                          IF f = cols[k].column_name THEN fc.field
                          ELSE fields[f]])

\* the Array's length starting at no row
CollectionFromEmptyLength(cols) ==
    LET object == InsertFields(cols, 1, [f \in {} |-> FieldContent(NullContent)])
    IN  IF ~object.ok THEN [ok |-> FALSE]
        ELSE [ok |-> TRUE,
              collection |->
                  [kind |-> "Array",
                   length |-> RangeContent(0, 1, 1),
                   content |-> [kind |-> "Object", fields |-> object.fields]]]

\* TryFrom<(&T, Vec<ColumnInfo>)> for Collection
CollectionFrom(cols) ==
    LET object == InsertFields(cols, 1, [f \in {} |-> FieldContent(NullContent)])
    IN  IF ~object.ok THEN [ok |-> FALSE]
        ELSE [ok |-> TRUE,
              collection |->
                  [kind |-> "Array",
                   length |-> RangeContent(1, 2, 1),
                   content |-> [kind |-> "Object", fields |-> object.fields]]]

\* a table whose name is no identifier passed over
CollectionStepSkipInvalid(ns, table_name, cols) ==
    LET n == NameFromStr(table_name)
        c == CollectionFrom(cols)
    IN  IF ~n.ok THEN [ok |-> TRUE, kind |-> "None", namespace |-> ns]
        ELSE IF ~c.ok THEN [ok |-> FALSE, kind |-> "CapabilityFailure", namespace |-> ns]
        ELSE [ok |-> TRUE, kind |-> "None",
              namespace |-> PutCollection(ns, n.name, c.collection)]

\* one iteration of populate_namespace_collections, after get_columns_infos
CollectionStep(ns, table_name, cols) ==
    LET n == NameFromStr(table_name)
        c == CollectionFrom(cols)
    IN  IF ~n.ok THEN [ok |-> FALSE, kind |-> "InvalidIdentifier", namespace |-> ns]
        ELSE IF ~c.ok THEN [ok |-> FALSE, kind |-> "CapabilityFailure", namespace |-> ns]
        ELSE [ok |-> TRUE, kind |-> "None",
              namespace |-> PutCollection(ns, n.name, c.collection)]

-----------------------------------------------------------------------------
(* Primary-Key Annotator *)

PrimaryKeyInfo(column_name) == [column_name |-> column_name]

\* the annotator with its pieces as parameters: the largest number of keys
\* it takes, the node it installs, and whether it installs before it counts
PrimaryKeyStepWith(ns, table_name, pks, most, node, early) ==
    LET field == FieldRefNew(FormatPath(table_name, pks[1].column_name))
        installed == IF Len(pks) > 0 /\ field.ok /\ Resolves(ns, field)
                     THEN SetSNode(ns, field, node) ELSE ns
    IN  IF Len(pks) > most
        THEN [ok |-> FALSE, kind |-> "UnsupportedSchema",
              namespace |-> IF early THEN installed ELSE ns]
        ELSE IF Len(pks) = 0 THEN [ok |-> TRUE, kind |-> "None", namespace |-> ns]
        ELSE IF ~field.ok
        THEN [ok |-> FALSE, kind |-> "InvalidIdentifier", namespace |-> ns]
        ELSE IF ~Resolves(ns, field)
        THEN [ok |-> FALSE, kind |-> "NotFound", namespace |-> ns]
        ELSE [ok |-> TRUE, kind |-> "None", namespace |-> installed]

\* the composite-key check left out
PrimaryKeyStepNoCheck(ns, table_name, pks) ==
    PrimaryKeyStepWith(ns, table_name, pks, MaxPks + 1, IdContent, FALSE)

\* the composite-key check off by one: `len() >= 1`
PrimaryKeyStepOffByOne(ns, table_name, pks) ==
    PrimaryKeyStepWith(ns, table_name, pks, 0, IdContent, FALSE)

\* the key's node looked up and left as decoded
PrimaryKeyStepNoInstall(ns, table_name, pks) ==
    PrimaryKeyStepWith(ns, table_name, pks, 1, NodeAt(ns, table_name, pks[1].column_name), FALSE)

\* the first key annotated before the keys are counted
PrimaryKeyStepInstallFirst(ns, table_name, pks) ==
    PrimaryKeyStepWith(ns, table_name, pks, 1, IdContent, TRUE)

\* one iteration of populate_namespace_primary_keys, after get_primary_keys
PrimaryKeyStep(ns, table_name, pks) ==
    IF Len(pks) > 1
    THEN [ok |-> FALSE, kind |-> "UnsupportedSchema", namespace |-> ns]
    ELSE IF Len(pks) = 0 THEN [ok |-> TRUE, kind |-> "None", namespace |-> ns]
    ELSE LET field == FieldRefNew(FormatPath(table_name, pks[1].column_name))
         IN  IF ~field.ok
             THEN [ok |-> FALSE, kind |-> "InvalidIdentifier", namespace |-> ns]
             ELSE IF ~Resolves(ns, field)
             THEN [ok |-> FALSE, kind |-> "NotFound", namespace |-> ns]
             ELSE [ok |-> TRUE, kind |-> "None",
                   namespace |-> SetSNode(ns, field, IdContent)]

-----------------------------------------------------------------------------
(* Foreign-Key Linker *)

ForeignKeyInfo(from_table, from_column, to_table, to_column) ==
    [from_table |-> from_table, from_column |-> from_column,
     to_table |-> to_table, to_column |-> to_column]

\* the linker with its pieces as parameters: the field the Reference points
\* to, and whether a source path that does not resolve is skipped
ForeignKeyStepWith(ns, fk, to_table, to_column, skip) ==
    LET from_field == FieldRefNew(FormatPath(fk.from_table, fk.from_column))
        to_field == FieldRefNew(FormatPath(to_table, to_column))
    IN  IF ~from_field.ok \/ ~to_field.ok
        THEN [ok |-> FALSE, kind |-> "InvalidIdentifier", namespace |-> ns]
        ELSE IF ~Resolves(ns, from_field)
        THEN [ok |-> skip, kind |-> IF skip THEN "None" ELSE "NotFound",
              namespace |-> ns]
        ELSE [ok |-> TRUE, kind |-> "None",
              namespace |-> SetSNode(ns, from_field, SameAsContent(to_field))]

\* the Reference built from the source path instead of the target path
ForeignKeyStepToSource(ns, fk) ==
    ForeignKeyStepWith(ns, fk, fk.from_table, fk.from_column, FALSE)

\* an edge whose source path does not resolve is skipped
ForeignKeyStepSkipMissing(ns, fk) ==
    ForeignKeyStepWith(ns, fk, fk.to_table, fk.to_column, TRUE)

\* an edge from a field to itself refused
ForeignKeyStepRejectSelf(ns, fk) ==
    IF fk.from_table = fk.to_table /\ fk.from_column = fk.to_column
    THEN [ok |-> FALSE, kind |-> "UnsupportedSchema", namespace |-> ns]
    ELSE ForeignKeyStepWith(ns, fk, fk.to_table, fk.to_column, FALSE)

\* the target given identifier semantics when the edge is linked
ForeignKeyStepTouchTarget(ns, fk) ==
    LET step == ForeignKeyStepWith(ns, fk, fk.to_table, fk.to_column, FALSE)
        to_field == FieldRefNew(FormatPath(fk.to_table, fk.to_column))
    IN  IF step.ok /\ Resolves(ns, to_field)
           /\ ~(fk.from_table = fk.to_table /\ fk.from_column = fk.to_column)
        THEN [step EXCEPT !.namespace = SetSNode(@, to_field, IdContent)]
        ELSE step

\* one iteration of the `for fk in foreign_keys` loop
ForeignKeyStep(ns, fk) ==
    LET from_field == FieldRefNew(FormatPath(fk.from_table, fk.from_column))
        to_field == FieldRefNew(FormatPath(fk.to_table, fk.to_column))
    IN  IF ~from_field.ok \/ ~to_field.ok
        THEN [ok |-> FALSE, kind |-> "InvalidIdentifier", namespace |-> ns]
        ELSE IF ~Resolves(ns, from_field)
        THEN [ok |-> FALSE, kind |-> "NotFound", namespace |-> ns]
        ELSE [ok |-> TRUE, kind |-> "None",
              namespace |-> SetSNode(ns, from_field, SameAsContent(to_field))]

-----------------------------------------------------------------------------
(* Sample Seeder *)

NumberValue(n) == [type |-> "Number", n |-> n]
StringValue == [type |-> "String", n |-> 0]
NullValue == [type |-> "Null", n |-> 0]
ObjectValue(fields) == [type |-> "Object", fields |-> fields]

\* synth_val_to_json, on one value
RECURSIVE SynthValToJson(_)
SynthValToJson(v) ==
    IF v.type = "Object"
    THEN [json |-> "Object",
          fields |-> [f \in DOMAIN v.fields |-> SynthValToJson(v.fields[f])]]
    ELSE [json |-> v.type, n |-> v.n]

Min(a, b) == IF a < b THEN a ELSE b
Max(a, b) == IF a > b THEN a ELSE b

\* Can the node take the sampled value?
Accepts(node, json) ==
    \/ node.kind = "SameAs"
    \/ node.kind = "Number" /\ json.json = "Number"
    \/ node.kind = "String" /\ json.json = "String"
    \/ node.kind = "Null" /\ json.json = "Null"

\* a range widened by one more than the value needs, at every merge
MergeScalarGrowing(node, json) ==
    IF node.kind = "Number" /\ node.variant = "Range" /\ json.json = "Number"
    THEN RangeContent(Min(node.low, json.n), Max(node.high, json.n) + 1, node.step)
    ELSE node

\* OptionalMergeStrategy on a scalar node: identifier generators and
\* references are kept, a range is widened to hold the value
MergeScalar(node, json) ==
    IF node.kind = "Number" /\ node.variant = "Range" /\ json.json = "Number"
    THEN RangeContent(Min(node.low, json.n), Max(node.high, json.n + 1), node.step)
    ELSE node

\* OptionalMergeStrategy on a field's node; a value no member accepts is skipped
MergeNode(node, json) ==
    IF node.kind = "OneOf"
    THEN IF \E k \in 1..Len(node.variants) : Accepts(node.variants[k], json)
         THEN LET k == CHOOSE j \in 1..Len(node.variants) :
                          /\ Accepts(node.variants[j], json)
                          /\ \A h \in 1..(j - 1) : ~Accepts(node.variants[h], json)
              IN  [node EXCEPT !.variants[k] = MergeScalar(@, json)]
         ELSE node
    ELSE IF Accepts(node, json) THEN MergeScalar(node, json)
    ELSE node

\* merge of one sampled row into the collection's Object template; fields of
\* the row that the template does not have are skipped
MergeRow(collection, row) ==
    [collection EXCEPT !.content.fields =
        [f \in DOMAIN @ |->
            IF f \in DOMAIN row.fields
            THEN [@[f] EXCEPT !.content = MergeNode(@, row.fields[f])]
            ELSE @[f]]]

RECURSIVE MergeRows(_, _, _)
MergeRows(collection, rows, k) ==
    IF k > Len(rows) THEN collection
    ELSE MergeRows(MergeRow(collection, rows[k]), rows, k + 1)

\* Namespace::try_update with OptionalMergeStrategy: the merge of a table's
\* sample fails as a whole when a sampled value is no row
TryUpdate(ns, n, rows) ==
    IF n \notin DOMAIN ns
    THEN [ok |-> FALSE, kind |-> "NotFound", namespace |-> ns]
    ELSE IF \E k \in 1..Len(rows) : rows[k].json # "Object"
    THEN [ok |-> FALSE, kind |-> "MergeIncompatibility", namespace |-> ns]
    ELSE [ok |-> TRUE, kind |-> "None",
          namespace |-> [ns EXCEPT ![n] = MergeRows(@, rows, 1)]]

\* the node a sampled literal stands for
LiteralContent(json) ==
    CASE json.json = "Number" -> RangeContent(json.n, json.n + 1, 1)
      [] json.json = "String" -> StringContent(0)
      [] OTHER -> NullContent

\* the sample written over the template with a replacing strategy
ValuesStepReplacing(ns, table, values) ==
    LET json_values == [k \in 1..Len(values) |-> SynthValToJson(values[k])]
        n == NameFromStr(table)
        merged == TryUpdate(ns, n.name, json_values)
    IN  IF ~n.ok THEN [ok |-> FALSE, kind |-> "Panic", namespace |-> ns]
        ELSE IF ~merged.ok \/ Len(json_values) = 0 THEN merged
        ELSE [merged EXCEPT !.namespace[n.name].content.fields =
                [f \in DOMAIN @ |->
                    IF f \in DOMAIN json_values[1].fields
                    THEN [@[f] EXCEPT !.content = LiteralContent(json_values[1].fields[f])]
                    ELSE @[f]]]

\* one iteration of populate_namespace_values, after get_deterministic_samples
ValuesStep(ns, table, values) ==
    LET json_values == [k \in 1..Len(values) |-> SynthValToJson(values[k])]
        n == NameFromStr(table)
    IN  IF ~n.ok THEN [ok |-> FALSE, kind |-> "Panic", namespace |-> ns]
        ELSE TryUpdate(ns, n.name, json_values)

-----------------------------------------------------------------------------
(* What the data source may answer *)

SeqsUpTo(S, n) == UNION {[1..k -> S] : k \in 0..n}

TableNames == {users, orders, dotted}

\* get_table_names: the tables of one schema, each listed once
TableLists ==
    {s \in SeqsUpTo(TableNames, MaxTables) :
        \A j, k \in 1..Len(s) : j # k => s[j] # s[k]}

\* get_columns_infos
ColumnLists ==
    { <<>>,
      <<ColumnInfo(id, "int", FALSE, 0)>>,
      <<ColumnInfo(id, "int", FALSE, 0), ColumnInfo(name, "text", TRUE, 8)>>,
      <<ColumnInfo(id, "int", FALSE, 0), ColumnInfo(user_id, "int", FALSE, 0)>>,
      <<ColumnInfo(id, "text", TRUE, 8), ColumnInfo(user_id, "int", TRUE, 0)>>,
      <<ColumnInfo(id, "geometry", FALSE, 0)>> }

\* get_primary_keys
PkLists == SeqsUpTo({PrimaryKeyInfo(id), PrimaryKeyInfo(user_id)}, MaxPks)

\* get_foreign_keys
FkEdges ==
    { ForeignKeyInfo(orders, user_id, users, id),
      ForeignKeyInfo(orders, user_id, orders, id),
      ForeignKeyInfo(users, id, users, id),
      ForeignKeyInfo(users, id, orders, user_id),
      ForeignKeyInfo(orders, id, missing, id),
      ForeignKeyInfo(users, name, dotted, id) }

FkLists == SeqsUpTo(FkEdges, MaxFks)

\* get_deterministic_samples
SampleLists ==
    { <<>>,
      <<ObjectValue([f \in {id, name, user_id} |->
                        IF f = id THEN NumberValue(42)
                        ELSE IF f = name THEN NullValue ELSE NumberValue(7)]),
        ObjectValue([f \in {id, name, missing} |->
                        IF f = id THEN StringValue
                        ELSE IF f = name THEN StringValue ELSE NumberValue(1)])>>,
      <<NumberValue(3)>> }

-----------------------------------------------------------------------------
(* build_namespace_import *)

NoError == [kind |-> "None", op |-> "none", context |-> "none"]
NoPayload == [some |-> FALSE]
NoName == <<>>

\* the list walked from its end
TableAtReversed(names, k) == names[Len(names) + 1 - k]

\* the table the running loop is at
TableAt(names, k) == names[k]

\* the foreign keys linked before the primary keys are annotated
PhaseAfterKeysSwapped(p) ==
    CASE p = "get_table_names" -> "collections"
      [] p = "collections" -> "get_foreign_keys"
      [] p = "get_foreign_keys" -> "foreign_keys"
      [] p = "foreign_keys" -> "primary_keys"
      [] p = "primary_keys" -> "set_seed"
      [] p = "set_seed" -> "values"
      [] OTHER -> "done"

\* the sampling left unseeded
PhaseAfterNoSeed(p) ==
    CASE p = "get_table_names" -> "collections"
      [] p = "collections" -> "primary_keys"
      [] p = "primary_keys" -> "get_foreign_keys"
      [] p = "get_foreign_keys" -> "foreign_keys"
      [] p = "foreign_keys" -> "values"
      [] OTHER -> "done"

\* the order of the calls in build_namespace_import
PhaseAfter(p) ==
    CASE p = "get_table_names" -> "collections"
      [] p = "collections" -> "primary_keys"
      [] p = "primary_keys" -> "get_foreign_keys"
      [] p = "get_foreign_keys" -> "foreign_keys"
      [] p = "foreign_keys" -> "set_seed"
      [] p = "set_seed" -> "values"
      [] OTHER -> "done"

Call(op, table, ok) ==
    trace' = Append(trace, [op |-> op, table |-> table, ok |-> ok])

\* `?`: the function returns the error and drops the namespace
Fail(kind, op, context) ==
    /\ pc' = "done"
    /\ result' = "Err"
    /\ error' = [kind |-> kind, op |-> op, context |-> context]
    /\ returned' = NoPayload

Enter(p) ==
    /\ pc' = PhaseAfter(p)
    /\ idx' = 1
    /\ UNCHANGED <<result, error, returned>>

Record(f, table, value) ==
    [t \in DOMAIN f \cup {table} |-> IF t = table THEN value ELSE f[t]]

Init ==
    /\ pc = "get_table_names"
    /\ table_names = <<>>
    /\ idx = 1
    /\ namespace = EmptyNamespace
    /\ foreign_keys = <<>>
    /\ result = "Running"
    /\ error = NoError
    /\ returned = NoPayload
    /\ column_infos = [t \in {} |-> <<>>]
    /\ primary_keys = [t \in {} |-> <<>>]
    /\ samples = [t \in {} |-> <<>>]
    /\ seeded = 0
    /\ trace = <<>>

\* lines 24-27
GetTableNames ==
    /\ pc = "get_table_names"
    /\ \/ /\ Call("get_table_names", NoName, FALSE)
          /\ Fail("CapabilityFailure", "get_table_names", "Failed to get table names")
          /\ UNCHANGED <<table_names, idx>>
       \/ /\ Call("get_table_names", NoName, TRUE)
          /\ table_names' \in TableLists
          /\ Enter(pc)
    /\ UNCHANGED <<namespace, foreign_keys, column_infos, primary_keys, samples, seeded>>

\* lines 46-55, one iteration
PopulateCollection ==
    /\ pc = "collections"
    /\ idx <= Len(table_names)
    /\ LET table_name == TableAt(table_names, idx)
       IN  \/ /\ Call("get_columns_infos", table_name, FALSE)
              /\ Fail("CapabilityFailure", "get_columns_infos", "none")
              /\ UNCHANGED <<namespace, column_infos, idx>>
           \/ \E cols \in ColumnLists :
                 LET step == CollectionStep(namespace, table_name, cols)
                 IN  /\ Call("get_columns_infos", table_name, TRUE)
                     /\ column_infos' = Record(column_infos, table_name, cols)
                     /\ namespace' = step.namespace
                     /\ IF step.ok
                        THEN /\ idx' = idx + 1
                             /\ UNCHANGED <<pc, result, error, returned>>
                        ELSE /\ Fail(step.kind, "populate_namespace_collections", "none")
                             /\ UNCHANGED idx
    /\ UNCHANGED <<table_names, foreign_keys, primary_keys, samples, seeded>>

\* lines 57 and 32-33
CollectionsDone ==
    /\ pc = "collections"
    /\ idx > Len(table_names)
    /\ Enter(pc)
    /\ UNCHANGED <<table_names, namespace, foreign_keys, column_infos,
                   primary_keys, samples, seeded, trace>>

\* lines 62-78, one iteration
PopulatePrimaryKey ==
    /\ pc = "primary_keys"
    /\ idx <= Len(table_names)
    /\ LET table_name == TableAt(table_names, idx)
       IN  \/ /\ Call("get_primary_keys", table_name, FALSE)
              /\ Fail("CapabilityFailure", "get_primary_keys", "none")
              /\ UNCHANGED <<namespace, primary_keys, idx>>
           \/ \E pks \in PkLists :
                 LET step == PrimaryKeyStep(namespace, table_name, pks)
                 IN  /\ Call("get_primary_keys", table_name, TRUE)
                     /\ primary_keys' = Record(primary_keys, table_name, pks)
                     /\ namespace' = step.namespace
                     /\ IF step.ok
                        THEN /\ idx' = idx + 1
                             /\ UNCHANGED <<pc, result, error, returned>>
                        ELSE /\ Fail(step.kind, "populate_namespace_primary_keys", "none")
                             /\ UNCHANGED idx
    /\ UNCHANGED <<table_names, foreign_keys, column_infos, samples, seeded>>

\* lines 80 and 35-36
PrimaryKeysDone ==
    /\ pc = "primary_keys"
    /\ idx > Len(table_names)
    /\ Enter(pc)
    /\ UNCHANGED <<table_names, namespace, foreign_keys, column_infos,
                   primary_keys, samples, seeded, trace>>

\* lines 85-87
GetForeignKeys ==
    /\ pc = "get_foreign_keys"
    /\ \/ /\ Call("get_foreign_keys", NoName, FALSE)
          /\ Fail("CapabilityFailure", "get_foreign_keys", "none")
          /\ UNCHANGED <<foreign_keys, idx>>
       \/ /\ Call("get_foreign_keys", NoName, TRUE)
          /\ foreign_keys' \in FkLists
          /\ Enter(pc)
    /\ UNCHANGED <<table_names, namespace, column_infos, primary_keys, samples, seeded>>

\* lines 89-95, one iteration
PopulateForeignKey ==
    /\ pc = "foreign_keys"
    /\ idx <= Len(foreign_keys)
    /\ Call("link_foreign_key", NoName, TRUE)
    /\ LET step == ForeignKeyStep(namespace, foreign_keys[idx])
       IN  /\ namespace' = step.namespace
           /\ IF step.ok
              THEN /\ idx' = idx + 1
                   /\ UNCHANGED <<pc, result, error, returned>>
              ELSE /\ Fail(step.kind, "populate_namespace_foreign_keys", "none")
                   /\ UNCHANGED idx
    /\ UNCHANGED <<table_names, foreign_keys, column_infos, primary_keys,
                   samples, seeded>>

\* lines 97 and 38-39
ForeignKeysDone ==
    /\ pc = "foreign_keys"
    /\ idx > Len(foreign_keys)
    /\ Enter(pc)
    /\ UNCHANGED <<table_names, namespace, foreign_keys, column_infos,
                   primary_keys, samples, seeded, trace>>

\* line 102
SetSeed ==
    /\ pc = "set_seed"
    /\ \/ /\ Call("set_seed", NoName, FALSE)
          /\ Fail("CapabilityFailure", "set_seed", "none")
          /\ UNCHANGED <<seeded, idx>>
       \/ /\ Call("set_seed", NoName, TRUE)
          /\ seeded' = seeded + 1
          /\ Enter(pc)
    /\ UNCHANGED <<table_names, namespace, foreign_keys, column_infos,
                   primary_keys, samples>>

\* lines 104-115, one iteration
PopulateValues ==
    /\ pc = "values"
    /\ idx <= Len(table_names)
    /\ LET table == TableAt(table_names, idx)
       IN  \/ /\ Call("get_deterministic_samples", table, FALSE)
              /\ Fail("CapabilityFailure", "get_deterministic_samples", "none")
              /\ UNCHANGED <<namespace, samples, idx>>
           \/ \E values \in SampleLists :
                 LET step == ValuesStep(namespace, table, values)
                 IN  /\ Call("get_deterministic_samples", table, TRUE)
                     /\ samples' = Record(samples, table, values)
                     /\ namespace' = step.namespace
                     /\ IF step.ok
                        THEN /\ idx' = idx + 1
                             /\ UNCHANGED <<pc, result, error, returned>>
                        ELSE /\ Fail(step.kind, "populate_namespace_values", "none")
                             /\ UNCHANGED idx
    /\ UNCHANGED <<table_names, foreign_keys, column_infos, primary_keys, seeded>>

\* lines 117 and 41
ValuesDone ==
    /\ pc = "values"
    /\ idx > Len(table_names)
    /\ pc' = "done"
    /\ result' = "Ok"
    /\ returned' = [some |-> TRUE, namespace |-> namespace]
    /\ UNCHANGED <<table_names, idx, namespace, foreign_keys, error, column_infos,
                   primary_keys, samples, seeded, trace>>

Next ==
    \/ GetTableNames
    \/ PopulateCollection
    \/ CollectionsDone
    \/ PopulatePrimaryKey
    \/ PrimaryKeysDone
    \/ GetForeignKeys
    \/ PopulateForeignKey
    \/ ForeignKeysDone
    \/ SetSeed
    \/ PopulateValues
    \/ ValuesDone

Spec == Init /\ [][Next]_vars

-----------------------------------------------------------------------------
(* What the claims speak of *)

Listed == {table_names[k] : k \in 1..Len(table_names)}
Succeeded == pc = "done" /\ result = "Ok" /\ returned.some
Failed == pc = "done" /\ result = "Err"

ColumnsOf(t) == {column_infos[t][k] : k \in 1..Len(column_infos[t])}
PkColumnsOf(t) == {primary_keys[t][k].column_name : k \in 1..Len(primary_keys[t])}
Edges == {foreign_keys[k] : k \in 1..Len(foreign_keys)}
IsFkSource(t, c) == \E fk \in Edges : fk.from_table = t /\ fk.from_column = c
RefTo(t, c) == SameAsContent([collection |-> t, field |-> c])

-----------------------------------------------------------------------------
\* C1: when get_primary_keys has answered two or more keys for a table, the
\* import has failed with the composite-primary-key error (UnsupportedSchema)
\* and has returned no namespace.
C1_CompositeKeyFails ==
    \A t \in DOMAIN primary_keys :
        Len(primary_keys[t]) >= 2 =>
            /\ Failed
            /\ error.kind = "UnsupportedSchema"
            /\ returned = NoPayload

C1_Witness ==
    /\ Failed
    /\ Len(table_names) = 2
    /\ Listed \subseteq DOMAIN primary_keys
    /\ Len(primary_keys[table_names[1]]) = 1
    /\ Len(primary_keys[table_names[2]]) = 2

\* C2 as stated: an import that has ended over tables that all have 0 or 1
\* primary key (on a column the table has), with no capability call failing,
\* has succeeded.
C2_Original ==
    ( /\ pc = "done"
      /\ Listed # {}
      /\ DOMAIN primary_keys = Listed
      /\ \A t \in Listed :
            /\ Len(primary_keys[t]) <= 1
            /\ PkColumnsOf(t) \subseteq {c.column_name : c \in ColumnsOf(t)}
      /\ error.kind # "CapabilityFailure" )
    => Succeeded

\* C2 amended: an import that has ended over tables that all have 0 or 1
\* primary key has succeeded unless a capability call, an identifier parse, a
\* field-path lookup or a table's merge failed; the composite-key error is
\* never raised for 0 or 1 key.
C2_FewKeysSucceed ==
    ( /\ pc = "done"
      /\ \A t \in DOMAIN primary_keys : Len(primary_keys[t]) <= 1
      /\ error.kind \notin {"CapabilityFailure", "InvalidIdentifier", "NotFound",
                            "MergeIncompatibility"} )
    => Succeeded

C2_Witness ==
    /\ Succeeded
    /\ Len(table_names) = 2
    /\ Len(primary_keys[table_names[1]]) = 1
    /\ Len(primary_keys[table_names[2]]) = 0

\* C3 as stated: in the namespace a successful import returns, the node of
\* every primary-key column is the identifier generator.
C3_Original ==
    Succeeded =>
        \A t \in Listed : \A c \in PkColumnsOf(t) :
            NodeAt(returned.namespace, t, c) = IdContent

\* C3 amended: in the namespace a successful import returns, the node of
\* every primary-key column that is not the source of a foreign-key edge is
\* the identifier generator.
C3_KeyIsIdentifier ==
    Succeeded =>
        \A t \in Listed : \A c \in PkColumnsOf(t) :
            ~IsFkSource(t, c) => NodeAt(returned.namespace, t, c) = IdContent

C3_Witness ==
    /\ Succeeded
    /\ \E t \in Listed : \E c \in PkColumnsOf(t) :
          /\ ~IsFkSource(t, c)
          /\ \E k \in 1..Len(samples[t]) : c \in DOMAIN samples[t][k].fields
          /\ NodeAt(returned.namespace, t, c) = IdContent

\* the edge is the last of the foreign_keys list with its source field
LastOfSource(k) ==
    \A j \in (k + 1)..Len(foreign_keys) :
        ~( /\ foreign_keys[j].from_table = foreign_keys[k].from_table
           /\ foreign_keys[j].from_column = foreign_keys[k].from_column )

\* C4 as stated: in the namespace a successful import returns, the source
\* node of every foreign-key edge is a Reference to the edge's target.
C4_Original ==
    Succeeded =>
        \A k \in 1..Len(foreign_keys) :
            NodeAt(returned.namespace, foreign_keys[k].from_table,
                   foreign_keys[k].from_column)
                = RefTo(foreign_keys[k].to_table, foreign_keys[k].to_column)

\* C4 amended: in the namespace a successful import returns, the source node
\* of every foreign-key edge that is the last edge of the list with that
\* source field is a Reference to the edge's target.
C4_EdgeIsReference ==
    Succeeded =>
        \A k \in 1..Len(foreign_keys) :
            LastOfSource(k) =>
                NodeAt(returned.namespace, foreign_keys[k].from_table,
                       foreign_keys[k].from_column)
                    = RefTo(foreign_keys[k].to_table, foreign_keys[k].to_column)

C4_Witness ==
    /\ Succeeded
    /\ Len(foreign_keys) = 2
    /\ ~LastOfSource(1)
    /\ foreign_keys[1].to_table # foreign_keys[2].to_table
    /\ \E k \in 1..Len(samples[foreign_keys[2].from_table]) :
          foreign_keys[2].from_column
              \in DOMAIN samples[foreign_keys[2].from_table][k].fields
    /\ NodeAt(returned.namespace, foreign_keys[2].from_table,
              foreign_keys[2].from_column)
          = RefTo(foreign_keys[2].to_table, foreign_keys[2].to_column)

IsNullableAlternation(node) ==
    /\ node.kind = "OneOf"
    /\ Len(node.variants) = 2
    /\ \E k \in 1..2 : node.variants[k] = NullContent

\* C5 as stated: in the namespace a successful import returns, the node of
\* every nullable column is an Alternation of exactly two variants, one of
\* them Null.
C5_Original ==
    Succeeded =>
        \A t \in Listed : \A c \in ColumnsOf(t) :
            c.is_nullable =>
                IsNullableAlternation(NodeAt(returned.namespace, t, c.column_name))

\* C5 amended: in the namespace a successful import returns, the node of
\* every nullable column that is neither the primary-key column of its table
\* nor the source of a foreign-key edge is an Alternation of exactly two
\* variants, one of them Null.
C5_NullableIsAlternation ==
    Succeeded =>
        \A t \in Listed : \A c \in ColumnsOf(t) :
            ( /\ c.is_nullable
              /\ c.column_name \notin PkColumnsOf(t)
              /\ ~IsFkSource(t, c.column_name) )
            => IsNullableAlternation(NodeAt(returned.namespace, t, c.column_name))

C5_Witness ==
    /\ Succeeded
    /\ \E t \in Listed : \E c, d \in ColumnsOf(t) :
          /\ c.is_nullable /\ c.data_type = "text"
          /\ d.is_nullable /\ d.data_type = "int"
          /\ c.column_name \notin PkColumnsOf(t) /\ ~IsFkSource(t, c.column_name)
          /\ d.column_name \notin PkColumnsOf(t) /\ ~IsFkSource(t, d.column_name)
          /\ Len(samples[t]) > 0
          /\ IsNullableAlternation(NodeAt(returned.namespace, t, c.column_name))
          /\ IsNullableAlternation(NodeAt(returned.namespace, t, d.column_name))

References(ns) ==
    UNION {{ns[t].content.fields[f].content.ref_ :
                f \in {g \in DOMAIN ns[t].content.fields :
                          ns[t].content.fields[g].content.kind = "SameAs"}} :
           t \in DOMAIN ns}

\* C6: from the Foreign-Key phase on, the target path of every Reference node
\* of the namespace resolves to an existing field of an existing collection.
C6_NoDanglingReference ==
    pc \in {"foreign_keys", "set_seed", "values", "done"} =>
        \A ref \in References(namespace) : Resolves(namespace, ref)


-----------------------------------------------------------------------------
(* The order of the calls *)

PhaseOf(op) ==
    CASE op = "get_table_names" -> 0
      [] op = "get_columns_infos" -> 1
      [] op = "get_primary_keys" -> 2
      [] op \in {"get_foreign_keys", "link_foreign_key"} -> 3
      [] op \in {"set_seed", "get_deterministic_samples"} -> 4

\* the number of entries `op` among the first n of the trace
CountBefore(op, n) == Cardinality({k \in 1..n : trace[k].op = op})
Count(op) == CountBefore(op, Len(trace))

\* the entries `op` of the trace, in order
Calls(op) ==
    LET IsOp(e) == e.op = op
    IN  SelectSeq(trace, IsOp)

\* C7: the steps of the four phases come in the order Collections, Primary
\* Keys, Foreign Keys, Values and are never interleaved; a step of a phase
\* comes only after its predecessor has gone over all tables (all edges);
\* no phase runs more than once, and on success each has run in full.
C7_PhasesInOrder ==
    /\ \A j, k \in 1..Len(trace) :
          j < k => PhaseOf(trace[j].op) <= PhaseOf(trace[k].op)
    /\ \A k \in 1..Len(trace) :
          /\ PhaseOf(trace[k].op) >= 1 => CountBefore("get_table_names", k) = 1
          /\ PhaseOf(trace[k].op) >= 2 =>
                CountBefore("get_columns_infos", k) = Len(table_names)
          /\ PhaseOf(trace[k].op) >= 3 =>
                CountBefore("get_primary_keys", k) = Len(table_names)
          /\ PhaseOf(trace[k].op) = 4 =>
                /\ CountBefore("get_foreign_keys", k) = 1
                /\ CountBefore("link_foreign_key", k) = Len(foreign_keys)
    /\ Count("get_table_names") <= 1
    /\ Count("get_columns_infos") <= Len(table_names)
    /\ Count("get_primary_keys") <= Len(table_names)
    /\ Count("get_foreign_keys") <= 1
    /\ Count("link_foreign_key") <= Len(foreign_keys)
    /\ Count("set_seed") <= 1
    /\ Count("get_deterministic_samples") <= Len(table_names)
    /\ Succeeded =>
          /\ Count("get_columns_infos") = Len(table_names)
          /\ Count("get_primary_keys") = Len(table_names)
          /\ Count("get_foreign_keys") = 1
          /\ Count("link_foreign_key") = Len(foreign_keys)
          /\ Count("set_seed") = 1
          /\ Count("get_deterministic_samples") = Len(table_names)

C7_Witness ==
    /\ Succeeded
    /\ Len(table_names) = 2
    /\ Len(foreign_keys) = 2
    /\ Len(trace) = 11

\* the columns the built collection of a listed table has
BuiltColumns(t) ==
    IF t \in DOMAIN column_infos /\ t \in DOMAIN namespace
    THEN {c.column_name : c \in ColumnsOf(t)} ELSE {}

\* some step taken so far had to fail: a capability call, an identifier
\* parse, a path lookup, a composite key or a table's merge
SomeStepFailed ==
    \/ \E k \in 1..Len(trace) : ~trace[k].ok
    \/ \E t \in DOMAIN column_infos :
          \/ ~ValidIdent(t)
          \/ \E c \in ColumnsOf(t) : c.data_type \notin {"int", "text"}
    \/ \E t \in DOMAIN primary_keys :
          \/ Len(primary_keys[t]) > 1
          \/ ~(PkColumnsOf(t) \subseteq BuiltColumns(t))
    \/ \E k \in 1..Count("link_foreign_key") :
          \/ ~ValidIdent(foreign_keys[k].from_table)
          \/ ~ValidIdent(foreign_keys[k].to_table)
          \/ foreign_keys[k].from_column \notin BuiltColumns(foreign_keys[k].from_table)
    \/ \E t \in DOMAIN samples :
          \E k \in 1..Len(samples[t]) : samples[t][k].type # "Object"

C8_ErrorReturned ==
    /\ SomeStepFailed => Failed
    /\ result = "Err" => pc = "done" /\ returned = NoPayload

\* C8: once a step of a phase has failed, the import has returned an error
\* and no namespace, and after the error nothing more is done: no later
\* table or phase, no second try.
C8_FailureAborts == []C8_ErrorReturned /\ [][result = "Err" => UNCHANGED vars]_vars

C8_Witness ==
    /\ Failed
    /\ error.kind = "NotFound"
    /\ Len(table_names) = 2
    /\ Len(foreign_keys) = 2
    /\ Count("link_foreign_key") = 1
    /\ DOMAIN namespace = Listed

\* C9: in each of the Collections, Primary Keys and Values phases the tables
\* are taken one at a time in the order of the one get_table_names answer.
C9_TablesInListOrder ==
    /\ Count("get_table_names") <= 1
    /\ \A op \in {"get_columns_infos", "get_primary_keys", "get_deterministic_samples"} :
          /\ Len(Calls(op)) <= Len(table_names)
          /\ \A k \in 1..Len(Calls(op)) : Calls(op)[k].table = table_names[k]

C9_Witness ==
    /\ Succeeded
    /\ table_names = <<users, orders>>
    /\ \A op \in {"get_columns_infos", "get_primary_keys", "get_deterministic_samples"} :
          Len(Calls(op)) = 2 /\ Calls(op)[1].table = users /\ Calls(op)[2].table = orders

\* C10: when get_primary_keys answers two keys for table t, the import fails
\* with UnsupportedSchema and every field of t still holds the node the
\* Collection Builder made: none was replaced by an identifier generator or a
\* Reference.
C10_CompositeKeyLeavesTable ==
    \A t \in DOMAIN primary_keys :
        Len(primary_keys[t]) >= 2 =>
            /\ Failed
            /\ error.kind = "UnsupportedSchema"
            /\ namespace[t] = CollectionFrom(column_infos[t]).collection

C10_Witness ==
    /\ Failed
    /\ Len(table_names) = 2
    /\ Listed \subseteq DOMAIN primary_keys
    /\ LET s == table_names[1]
           t == table_names[2]
       IN  /\ primary_keys[t] = <<PrimaryKeyInfo(id), PrimaryKeyInfo(user_id)>>
           /\ PkColumnsOf(t) \subseteq BuiltColumns(t)
           /\ namespace[t] = CollectionFrom(column_infos[t]).collection
           /\ Len(primary_keys[s]) = 1
           /\ namespace[s] # CollectionFrom(column_infos[s]).collection


-----------------------------------------------------------------------------
(* The Values phase *)

IsAnnotation(node) == node = IdContent \/ node.kind = "SameAs"

FieldsOf(ns, t) == DOMAIN ns[t].content.fields

\* a step of the Values phase keeps every identifier generator and Reference
ValuesKeepAnnotations ==
    pc = "values" =>
        \A t \in DOMAIN namespace : \A f \in FieldsOf(namespace, t) :
            IsAnnotation(NodeAt(namespace, t, f)) =>
                /\ t \in DOMAIN namespace'
                /\ f \in FieldsOf(namespace', t)
                /\ NodeAt(namespace', t, f) = NodeAt(namespace, t, f)

\* C11: no step of the Values phase changes an identifier generator installed
\* by the Primary-Key phase or a Reference installed by the Foreign-Key phase.
C11_ValuesKeepAnnotations == [][ValuesKeepAnnotations]_vars

C11_Witness ==
    /\ Succeeded
    /\ \E t \in Listed : \E f, g \in FieldsOf(namespace, t) :
          /\ Len(samples[t]) > 0
          /\ {f, g} \subseteq DOMAIN samples[t][1].fields
          /\ samples[t][1].fields[f].type = "Number"
          /\ samples[t][1].fields[g].type = "Number"
          /\ NodeAt(returned.namespace, t, f) = IdContent
          /\ NodeAt(returned.namespace, t, g).kind = "SameAs"

\* the Values loop run again from table k on, with the samples it was given
RECURSIVE ValuesAgain(_, _)
ValuesAgain(ns, k) ==
    IF k > Len(table_names) THEN ns
    ELSE ValuesAgain(ValuesStep(ns, TableAt(table_names, k),
                                samples[TableAt(table_names, k)]).namespace, k + 1)

\* C12: running the Values phase once more, with the same samples, over the
\* namespace a successful import returned gives that namespace again.
C12_ValuesIdempotent ==
    Succeeded => ValuesAgain(returned.namespace, 1) = returned.namespace

C12_Witness ==
    /\ Succeeded
    /\ \E t \in Listed : \E f \in FieldsOf(namespace, t) :
          /\ Len(samples[t]) > 0
          /\ ~IsAnnotation(NodeAt(returned.namespace, t, f))
          /\ NodeAt(returned.namespace, t, f)
                # CollectionFrom(column_infos[t]).collection.content.fields[f].content

\* C13: set_seed is called once in an import that reaches the Values phase,
\* and every get_deterministic_samples call comes after it.
C13_SeededOnceFirst ==
    /\ Count("set_seed") <= 1
    /\ seeded <= Count("set_seed")
    /\ \A k \in 1..Len(trace) :
          trace[k].op = "get_deterministic_samples" =>
              /\ CountBefore("set_seed", k) = 1
              /\ seeded = 1
    /\ pc = "values" => Count("set_seed") = 1 /\ seeded = 1
    /\ Succeeded => Count("set_seed") = 1 /\ seeded = 1

C13_Witness ==
    /\ Succeeded
    /\ seeded = 1
    /\ Count("get_deterministic_samples") = 2


-----------------------------------------------------------------------------
(* The shape of a collection *)

\* C14: every collection of the namespace, from its insertion on, is an Array
\* over one Object template with the length node Range(1, 2, 1); the fields
\* are the table's columns, none optional, and only their nodes change.
C14_CollectionShape ==
    \A t \in DOMAIN namespace :
        /\ namespace[t].kind = "Array"
        /\ DOMAIN namespace[t] = {"kind", "length", "content"}
        /\ namespace[t].length = RangeContent(1, 2, 1)
        /\ namespace[t].content.kind = "Object"
        /\ FieldsOf(namespace, t) = {c.column_name : c \in ColumnsOf(t)}
        /\ \A f \in FieldsOf(namespace, t) : ~namespace[t].content.fields[f].optional

C14_Witness ==
    /\ Succeeded
    /\ \E t \in Listed : \E f, g \in FieldsOf(namespace, t) :
          /\ Len(samples[t]) = 2
          /\ NodeAt(returned.namespace, t, f) = IdContent
          /\ NodeAt(returned.namespace, t, g).kind = "SameAs"
          /\ returned.namespace[t].length = RangeContent(1, 2, 1)

\* C15: the error of a failed capability call carries a context naming the
\* operation and the table or column it concerned.
C15_FailureHasContext ==
    (Failed /\ error.kind = "CapabilityFailure") => error.context # "none"


-----------------------------------------------------------------------------
(* The users / orders scenario *)

\* users(id primary key, name nullable) and orders(id primary key, user_id
\* referencing users.id), listed in that order
Scenario ==
    /\ table_names = <<users, orders>>
    /\ DOMAIN column_infos = {users, orders}
    /\ DOMAIN primary_keys = {users, orders}
    /\ Count("get_foreign_keys") = 1
    /\ column_infos[users] = <<ColumnInfo(id, "int", FALSE, 0),
                               ColumnInfo(name, "text", TRUE, 8)>>
    /\ column_infos[orders] = <<ColumnInfo(id, "int", FALSE, 0),
                                ColumnInfo(user_id, "int", FALSE, 0)>>
    /\ primary_keys[users] = <<PrimaryKeyInfo(id)>>
    /\ primary_keys[orders] = <<PrimaryKeyInfo(id)>>
    /\ foreign_keys = <<ForeignKeyInfo(orders, user_id, users, id)>>

ScenarioResult(ns) ==
    /\ NodeAt(ns, users, id) = IdContent
    /\ NodeAt(ns, users, name)
          = OneOfContent(<<DecodeToContent("text", 8).content, NullContent>>)
    /\ NodeAt(ns, orders, id) = IdContent
    /\ NodeAt(ns, orders, user_id) = RefTo(users, id)

\* C16: on the users / orders scenario the import succeeds (no capability
\* call or merge failing) and users.id and orders.id are identifier
\* generators, users.name is Alternation[decoded text, Null] and
\* orders.user_id is a Reference to users.content.id.
C16_ScenarioResult ==
    Scenario =>
        /\ pc \in {"set_seed", "values"} => ScenarioResult(namespace)
        /\ pc = "done" =>
              \/ Succeeded /\ ScenarioResult(returned.namespace)
              \/ Failed /\ error.kind \in {"CapabilityFailure", "MergeIncompatibility"}

C16_Witness ==
    /\ Scenario
    /\ Succeeded
    /\ Len(samples[users]) = 2
    /\ Len(samples[orders]) = 2
    /\ ScenarioResult(returned.namespace)

-----------------------------------------------------------------------------
(* Structural violations *)

\* the field exists in the collections the Collections phase built
Exists(t, c) == t \in Listed /\ c \in BuiltColumns(t)

\* C17: an import over a primary-key column, a foreign-key source or a
\* foreign-key target that names no existing table or field does not return
\* a namespace.
C17_StructuralViolationFatal ==
    Succeeded =>
        /\ \A t \in Listed : \A c \in PkColumnsOf(t) : Exists(t, c)
        /\ \A fk \in Edges :
              /\ Exists(fk.from_table, fk.from_column)
              /\ Exists(fk.to_table, fk.to_column)


-----------------------------------------------------------------------------
(* Cycles of foreign keys *)

Source(fk) == <<fk.from_table, fk.from_column>>
Target(fk) == <<fk.to_table, fk.to_column>>

\* the fields reached from the fields S along the edges
RECURSIVE Reached(_)
Reached(S) ==
    LET more == S \cup {Target(fk) : fk \in {e \in Edges : Source(e) \in S}}
    IN  IF more = S THEN S ELSE Reached(more)

\* the edge lies on a cycle of edges, or points from a field to itself
Cyclic(fk) == Source(fk) \in Reached({Target(fk)})

FailedInLinker == Failed /\ error.op = "populate_namespace_foreign_keys"

\* the edges the linker has gone through without failing
Linked ==
    IF FailedInLinker THEN Count("link_foreign_key") - 1
    ELSE Count("link_foreign_key")

\* C18: the linker fails only for an edge whose names are no identifiers or
\* whose source does not exist, never for a cycle or a self-reference; every
\* cyclic edge it has gone through has its Reference installed (until a later
\* edge with the same source replaces it).
C18_CyclesAccepted ==
    /\ FailedInLinker =>
          LET fk == foreign_keys[Count("link_foreign_key")]
          IN  \/ ~ValidIdent(fk.from_table) \/ ~ValidIdent(fk.to_table)
              \/ ~Exists(fk.from_table, fk.from_column)
    /\ \A k \in 1..Linked :
          ( /\ Cyclic(foreign_keys[k])
            /\ \A j \in (k + 1)..Linked : Source(foreign_keys[j]) # Source(foreign_keys[k]) )
          => NodeAt(namespace, foreign_keys[k].from_table, foreign_keys[k].from_column)
                = RefTo(foreign_keys[k].to_table, foreign_keys[k].to_column)

C18_Witness ==
    /\ Succeeded
    /\ Len(foreign_keys) = 2
    /\ Source(foreign_keys[1]) = Target(foreign_keys[2])
    /\ Source(foreign_keys[2]) = Target(foreign_keys[1])
    /\ Source(foreign_keys[1]) # Source(foreign_keys[2])
    /\ \A k \in 1..2 :
          NodeAt(returned.namespace, foreign_keys[k].from_table, foreign_keys[k].from_column)
              = RefTo(foreign_keys[k].to_table, foreign_keys[k].to_column)

-----------------------------------------------------------------------------
(* What one foreign-key edge changes *)

\* an iteration of the linker keeps the collections, their wrappers and
\* every field but the edge's source
LinkKeepsOthers ==
    (pc = "foreign_keys" /\ idx <= Len(foreign_keys)) =>
        /\ DOMAIN namespace' = DOMAIN namespace
        /\ \A t \in DOMAIN namespace :
              /\ namespace'[t].kind = namespace[t].kind
              /\ namespace'[t].length = namespace[t].length
              /\ FieldsOf(namespace', t) = FieldsOf(namespace, t)
              /\ \A f \in FieldsOf(namespace, t) :
                    <<t, f>> # Source(foreign_keys[idx]) =>
                        namespace'[t].content.fields[f] = namespace[t].content.fields[f]

\* an iteration of the linker keeps the node at the edge's target
LinkKeepsTarget ==
    (pc = "foreign_keys" /\ idx <= Len(foreign_keys)) =>
        LET fk == foreign_keys[idx]
        IN  Exists(fk.to_table, fk.to_column) =>
                NodeAt(namespace', fk.to_table, fk.to_column)
                    = NodeAt(namespace, fk.to_table, fk.to_column)

\* an iteration of the linker that does not fail leaves the Reference to the
\* edge's target at the edge's source
LinkInstalls ==
    (pc = "foreign_keys" /\ idx <= Len(foreign_keys) /\ pc' = "foreign_keys") =>
        LET fk == foreign_keys[idx]
        IN  NodeAt(namespace', fk.from_table, fk.from_column)
                = RefTo(fk.to_table, fk.to_column)

\* after the linker, the last edge with a source decides the source's node
LastEdgeDecides ==
    pc \in {"set_seed", "values"} =>
        \A k \in 1..Len(foreign_keys) :
            LastOfSource(k) =>
                NodeAt(namespace, foreign_keys[k].from_table, foreign_keys[k].from_column)
                    = RefTo(foreign_keys[k].to_table, foreign_keys[k].to_column)

\* C19 as stated: linking one edge changes the node at its source only; the
\* node at its target and every other field are left as they were, and the
\* last edge with a source decides its Reference.
C19_Original ==
    []LastEdgeDecides /\ [][LinkKeepsOthers /\ LinkKeepsTarget /\ LinkInstalls]_vars

\* C19 amended: linking one edge changes the node at its source only; the
\* node at its target, unless the target is the source field itself, and
\* every other field are left as they were, and the last edge with a source
\* decides its Reference.
C19_EdgeChangesSourceOnly ==
    []LastEdgeDecides /\ [][LinkKeepsOthers /\ LinkInstalls]_vars

C19_Witness ==
    /\ pc = "set_seed"
    /\ Len(foreign_keys) = 2
    /\ Source(foreign_keys[1]) = Source(foreign_keys[2])
    /\ Target(foreign_keys[1]) # Target(foreign_keys[2])
    /\ Exists(foreign_keys[2].to_table, foreign_keys[2].to_column)
    /\ NodeAt(namespace, foreign_keys[2].to_table, foreign_keys[2].to_column) = IdContent
    /\ NodeAt(namespace, foreign_keys[2].from_table, foreign_keys[2].from_column)
          = RefTo(foreign_keys[2].to_table, foreign_keys[2].to_column)

-----------------------------------------------------------------------------
(* The unchecked Name::from_str of the Values phase *)

\* C20: Name::from_str(table).unwrap() of the Values phase never panics: from
\* the end of the Collections phase on, every listed table name parses as a
\* Name and has its collection in the namespace.
C20_UnwrapNeverPanics ==
    /\ error.kind # "Panic"
    /\ (pc \in {"primary_keys", "get_foreign_keys", "foreign_keys", "set_seed", "values"}
        \/ Succeeded) =>
          \A t \in Listed : NameFromStr(t).ok /\ t \in DOMAIN namespace
    /\ \A k \in 1..Len(trace) :
          trace[k].op = "get_deterministic_samples" =>
              /\ NameFromStr(trace[k].table).ok
              /\ trace[k].table \in DOMAIN namespace

C20_Witness ==
    /\ Succeeded
    /\ Len(table_names) = 2
    /\ Count("get_deterministic_samples") = 2
    /\ \A t \in Listed : Len(samples[t]) > 0

====
